---------------------------- MODULE Spec2Model ----------------------------
(***************************************************************************)
(* Model of scripts/demo-moderation.py: the ContentAnalyzer scoring and    *)
(* decision engine (calculate_toxicity_score, calculate_spam_score,        *)
(* calculate_sentiment, determine_action, generate_reason, analyze_text,   *)
(* analyze_image).                                                         *)
(*                                                                         *)
(* Texts are TLA+ strings, read character by character.  Scores are IEEE   *)
(* binary64 values, held exactly as integers counted in units of 2^-56 and *)
(* split in two limbs <<hi, lo>> (value = hi * 2^28 + lo, 0 <= lo < 2^28)  *)
(* so that every rounding of the Python arithmetic is reproduced.          *)
(***************************************************************************)
EXTENDS Integers, Sequences, FiniteSets, TLC

-----------------------------------------------------------------------------
(* binary64 arithmetic on the values the program produces (|x| < 8)         *)

LimbBase == 2^28

Zero == <<0, 0>>

\* exact sum of two limb pairs (no rounding)
XAdd(a, b) ==
  LET s == a[2] + b[2]
  IN  <<a[1] + b[1] + (s \div LimbBase), s % LimbBase>>

\* exact negation
XNeg(a) == IF a[2] = 0 THEN <<-a[1], 0>> ELSE <<-a[1] - 1, LimbBase - a[2]>>

\* exact product of a natural number n and a limb pair a >= 0 (n * a < 8),
\* the low limb multiplied in two halves of 14 bits
XMul(n, a) ==
  LET h  == 2^14
      p0 == n * (a[2] % h)
      p1 == n * (a[2] \div h) + (p0 \div h)
  IN  <<n * a[1] + (p1 \div h), (p1 % h) * h + (p0 % h)>>

\* a < b
FLess(a, b) == a[1] < b[1] \/ (a[1] = b[1] /\ a[2] < b[2])

\* a > b, the comparison every threshold test of the program uses
FGreater(a, b) == FLess(b, a)

FLessEq(a, b) == ~FLess(b, a)

\* the spacing of binary64 values around a magnitude whose high limb is hi:
\* 53 significant bits, so 1 unit below 2^53 units and doubling per binade
UlpOf(hi) ==
  IF hi < 2^25 THEN 1
  ELSE IF hi < 2^26 THEN 2
  ELSE IF hi < 2^27 THEN 4
  ELSE IF hi < 2^28 THEN 8
  ELSE IF hi < 2^29 THEN 16
  ELSE IF hi < 2^30 THEN 32
  ELSE 64

\* round a magnitude m >= 0 to the nearest binary64, ties to even; frac says
\* what lies below the last unit of m: 0 nothing, 1 less than half a unit,
\* 2 exactly half a unit, 3 more than half a unit
RoundMag(m, frac) ==
  LET u    == UlpOf(m[1])
      r    == m[2] % u
      down == <<m[1], m[2] - r>>
      up   == XAdd(down, <<0, u>>)
      half == u \div 2
      even == ((m[2] - r) \div u) % 2 = 0
      cmp  == IF u = 1
                THEN (IF frac = 3 THEN 1 ELSE IF frac = 2 THEN 0 ELSE -1)
                ELSE IF r > half THEN 1
                ELSE IF r < half THEN -1
                ELSE IF frac = 0 THEN 0 ELSE 1
  IN  IF r = 0 /\ frac = 0 THEN m
      ELSE IF cmp = 1 THEN up
      ELSE IF cmp = -1 THEN down
      ELSE IF even THEN down ELSE up

\* round an exact signed value
FRound(x) == IF x[1] < 0 THEN XNeg(RoundMag(XNeg(x), 0)) ELSE RoundMag(x, 0)

\* Python's a + b, a - b and n * a on floats
FAdd(a, b) == FRound(XAdd(a, b))
FSub(a, b) == FRound(XAdd(a, XNeg(b)))
FMulInt(n, a) == FRound(XMul(n, a))

FMin(a, b) == IF FLess(b, a) THEN b ELSE a
FMax(a, b) == IF FLess(a, b) THEN b ELSE a

\* long division: seven more binary digits of p[2] / d appended to p[1]
DivStep(p, d) == <<128 * p[1] + ((128 * p[2]) \div d), (128 * p[2]) % d>>

\* the next 28 binary digits of rem / d, and the remainder left
DivLimb(rem, d) == DivStep(DivStep(DivStep(DivStep(<<0, rem>>, d), d), d), d)

\* the binary64 value of the decimal literal n/d (0 <= n/d < 8), as Python
\* reads 0.7, 0.85, ...: the quotient to 56 binary places, correctly rounded
Dec(n, d) ==
  LET l1   == DivLimb(n % d, d)
      l2   == DivLimb(l1[2], d)
      rem  == l2[2]
      frac == IF rem = 0 THEN 0
              ELSE IF 2 * rem < d THEN 1
              ELSE IF 2 * rem = d THEN 2 ELSE 3
  IN  RoundMag(<<(n \div d) * LimbBase + l1[1], l2[1]>>, frac)

One == Dec(1, 1)

-----------------------------------------------------------------------------
(* strings: Python's str operations and the regular expressions of the      *)
(* analyzer, on texts over ASCII letters, digits, punctuation and whitespace *)

UpperLetters == "ABCDEFGHIJKLMNOPQRSTUVWXYZ"
LowerLetters == "abcdefghijklmnopqrstuvwxyz"
Digits == "0123456789"

\* the i-th character of s
Char(s, i) == SubSeq(s, i, i)

CharsOf(s) == {Char(s, i) : i \in 1..Len(s)}

UpperChars == CharsOf(UpperLetters)

\* A |-> a, ..., Z |-> z
LowerMap ==
  [c \in UpperChars |->
     Char(LowerLetters, CHOOSE i \in 1..Len(UpperLetters) : Char(UpperLetters, i) = c)]

\* str.lower() on one character
ToLower(c) == IF c \in UpperChars THEN LowerMap[c] ELSE c

\* str.isupper() on one character
IsUpper(c) == c \in UpperChars

\* the characters str.split() and the regex class \s treat as whitespace
IsSpace(c) == c \in {" ", "\t", "\n", "\r"}

\* the regex class \w
WordChars == UpperChars \cup CharsOf(LowerLetters) \cup CharsOf(Digits) \cup {"_"}

\* the literal lit stands in s at position i
MatchAt(s, i, lit) ==
  /\ i >= 1
  /\ i + Len(lit) - 1 <= Len(s)
  /\ SubSeq(s, i, i + Len(lit) - 1) = lit

\* the lower-case literal lit stands in s at position i, letter case ignored
\* (re.IGNORECASE)
MatchAtCI(s, i, lit) ==
  /\ i >= 1
  /\ i + Len(lit) - 1 <= Len(s)
  /\ \A k \in 1..Len(lit) : ToLower(Char(s, i + k - 1)) = Char(lit, k)

\* Python's  lit in s
Contains(s, lit) == \E i \in 1..(Len(s) - Len(lit) + 1) : MatchAt(s, i, lit)

\* re.compile('a|b|c', re.IGNORECASE).search(s) for literal alternatives
SearchAnyCI(s, alts) ==
  \E lit \in alts : \E i \in 1..(Len(s) - Len(lit) + 1) : MatchAtCI(s, i, lit)

\* str.split(): the maximal runs of non-whitespace characters, in order
TokenStarts(s) ==
  {i \in 1..Len(s) : ~IsSpace(Char(s, i)) /\ (i = 1 \/ IsSpace(Char(s, i - 1)))}

TokenEnd(s, i) ==
  CHOOSE j \in i..Len(s) :
    /\ \A k \in i..j : ~IsSpace(Char(s, k))
    /\ (j = Len(s) \/ IsSpace(Char(s, j + 1)))

Split(s) ==
  LET starts == TokenStarts(s)
      nth(n) == CHOOSE i \in starts : Cardinality({j \in starts : j < i}) = n - 1
  IN  [n \in 1..Cardinality(starts) |-> SubSeq(s, nth(n), TokenEnd(s, nth(n)))]

\* word.lower() == lit for a lower-case literal lit
EqualsCI(word, lit) == Len(word) = Len(lit) /\ MatchAtCI(word, 1, lit)

\* word.lower() in list
LowerIn(word, list) == \E lit \in list : EqualsCI(word, lit)

\* \b<lit>\b at position i (lit made of word characters), letter case ignored
WordAtCI(s, i, lit) ==
  /\ MatchAtCI(s, i, lit)
  /\ (i = 1 \/ Char(s, i - 1) \notin WordChars)
  /\ (i + Len(lit) > Len(s) \/ Char(s, i + Len(lit)) \notin WordChars)

\* no line break in s[from..to]: what the regex  .*  can span
NoNewline(s, from, to) == \A k \in from..to : Char(s, k) # "\n"

NoSpace(s, from, to) == \A k \in from..to : ~IsSpace(Char(s, k))

\* \b(a1|a2|..)\b.*\b(b1|b2|..)\b with re.IGNORECASE
SearchWordThenWordCI(s, firsts, seconds) ==
  \E a \in firsts : \E i \in 1..(Len(s) - Len(a) + 1) :
    /\ WordAtCI(s, i, a)
    /\ \E b \in seconds : \E j \in (i + Len(a))..(Len(s) - Len(b) + 1) :
         WordAtCI(s, j, b) /\ NoNewline(s, i + Len(a), j - 1)

\* a.*b with re.IGNORECASE
SearchThenCI(s, a, b) ==
  \E i \in 1..(Len(s) - Len(a) + 1) :
    /\ MatchAtCI(s, i, a)
    /\ \E j \in (i + Len(a))..(Len(s) - Len(b) + 1) :
         MatchAtCI(s, j, b) /\ NoNewline(s, i + Len(a), j - 1)

\* the lengths n for which  https?://  stands at position i (case ignored or not)
UrlHeads(s, i, ci) ==
  {Len(h) : h \in {h \in {"http://", "https://"} :
                     IF ci THEN MatchAtCI(s, i, h) ELSE MatchAt(s, i, h)}}

\* (https?://[^\s]+){3,} with re.IGNORECASE: three heads in one run of
\* non-whitespace characters, each followed by at least one character
SearchThreeUrlsCI(s) ==
  \E i0 \in 1..Len(s) : \E l0 \in UrlHeads(s, i0, TRUE) :
    \E i1 \in (i0 + l0 + 1)..Len(s) : \E l1 \in UrlHeads(s, i1, TRUE) :
      \E i2 \in (i1 + l1 + 1)..Len(s) : \E l2 \in UrlHeads(s, i2, TRUE) :
        /\ i2 + l2 <= Len(s)
        /\ NoSpace(s, i0, i2 + l2)

\* (.)\1{10,}: eleven equal characters in a row, none a line break
SearchRepeatedChar(s) ==
  \E i \in 1..(Len(s) - 10) :
    /\ Char(s, i) # "\n"
    /\ \A k \in 1..10 : Char(s, i + k) = Char(s, i)

\* len(re.findall(r'https?://[^\s]+', s)): a match runs to the end of its
\* whitespace-delimited token, so at most one per token
UrlCount(s) ==
  LET HasUrl(tok) ==
        \E i \in 1..Len(tok) : \E l \in UrlHeads(tok, i, FALSE) : i + l <= Len(tok)
      tokens == Split(s)
  IN  Cardinality({n \in 1..Len(tokens) : HasUrl(tokens[n])})

-----------------------------------------------------------------------------
(* ContentAnalyzer                                                          *)

\* ContentAnalyzer.__init__: the thresholds and the two pattern lists.  A
\* toxic pattern is its set of literal alternatives; a spam pattern is named
\* and searched by SpamPatternSearch.
NewContentAnalyzer ==
  [toxicity_threshold |-> Dec(7, 10),
   spam_threshold     |-> Dec(8, 10),
   nsfw_threshold     |-> Dec(6, 10),
   toxic_patterns     |-> << {"hate", "toxic", "abusive", "harassment"},
                             {"kill yourself", "die", "death threats"},
                             {"racism", "sexism", "discrimination"},
                             {"idiot", "stupid", "moron", "worthless"} >>,
   spam_patterns      |-> << "promotion", "call_to_action", "three_urls",
                             "repeated_character" >>]

\* pattern.search(text) for the four spam patterns of __init__
SpamPatternSearch(pattern, text) ==
  CASE pattern = "promotion" ->
         SearchWordThenWordCI(text, {"buy", "sale", "discount", "offer", "deal"},
                                    {"now", "today", "limited"})
    [] pattern = "call_to_action" ->
         \/ SearchAnyCI(text, {"click here", "make money"})
         \/ SearchThenCI(text, "visit", "website")
    [] pattern = "three_urls" -> SearchThreeUrlsCI(text)
    [] pattern = "repeated_character" -> SearchRepeatedChar(text)

\* AddPerHit with  score -= weight  written for  score += weight
RECURSIVE AddPerHitSubtract(_, _, _)
AddPerHitSubtract(hits, n, weight) ==
  IF n = 0 THEN Zero
  ELSE IF hits[n] THEN FSub(AddPerHitSubtract(hits, n - 1, weight), weight)
  ELSE AddPerHitSubtract(hits, n - 1, weight)

\* score += weight once for each of the first n flags that is set, in order
RECURSIVE AddPerHit(_, _, _)
AddPerHit(hits, n, weight) ==
  IF n = 0 THEN Zero
  ELSE IF hits[n] THEN FAdd(AddPerHit(hits, n - 1, weight), weight)
  ELSE AddPerHit(hits, n - 1, weight)

profanity_words == {"damn", "hell", "crap", "stupid", "idiot"}

\* caps_ratio > 0.5, with caps_ratio = caps_count / len(text) if text else 0.
\* The quotient of two small integers exceeds 0.5 exactly when twice the
\* count exceeds the length (0.5 is a binary64 value, the division rounds
\* correctly).
CapsRatioHigh(text) ==
  IF text # ""
    THEN 2 * Cardinality({i \in 1..Len(text) : IsUpper(Char(text, i))}) > Len(text)
    ELSE FALSE

\* the sum calculate_toxicity_score holds before its return statement
ToxicityRaw(self, text) ==
  LET hits == [n \in 1..Len(self.toxic_patterns) |->
                 SearchAnyCI(text, self.toxic_patterns[n])]
      by_pattern == AddPerHit(hits, Len(hits), Dec(3, 10))
      words == Split(text)
      profanity_count ==
        Cardinality({n \in 1..Len(words) : LowerIn(words[n], profanity_words)})
      with_profanity == FAdd(by_pattern, FMulInt(profanity_count, Dec(1, 10)))
  IN  IF CapsRatioHigh(text) THEN FAdd(with_profanity, Dec(2, 10))
      ELSE with_profanity

\* ClampScore with the min left out:  return score
ClampScoreMissing(score) == score

\* return min(score, 1.0)
ClampScore(score) == FMin(score, One)

calculate_toxicity_score(self, text) == ClampScore(ToxicityRaw(self, text))

\* len(words) > 10 and len(unique_words) / len(words) < 0.3.  The quotient
\* is below the binary64 value 0.3 exactly when 10 * unique < 3 * words.
RepeatedContent(text) ==
  LET words == Split(text)
      unique_words == {words[n] : n \in 1..Len(words)}
  IN  Len(words) > 10 /\ 10 * Cardinality(unique_words) < 3 * Len(words)

calculate_spam_score(self, text) ==
  LET hits == [n \in 1..Len(self.spam_patterns) |->
                 SpamPatternSearch(self.spam_patterns[n], text)]
      by_pattern == AddPerHit(hits, Len(hits), Dec(4, 10))
      with_urls == IF UrlCount(text) > 2 THEN FAdd(by_pattern, Dec(3, 10))
                   ELSE by_pattern
      with_repeats == IF RepeatedContent(text) THEN FAdd(with_urls, Dec(3, 10))
                      ELSE with_urls
  IN  FMin(with_repeats, One)

positive_words == {"good", "great", "awesome", "love", "excellent", "amazing",
                   "wonderful"}
negative_words == {"bad", "terrible", "awful", "hate", "horrible", "disgusting"}

\* the loop of calculate_sentiment over the first n words that are in a list
\* (the other words leave sentiment as it is)
RECURSIVE SentimentLoop(_, _)
SentimentLoop(words, n) ==
  IF n = 0 THEN Zero
  ELSE LET before == SentimentLoop(words, n - 1)
           plus   == IF LowerIn(words[n], positive_words)
                       THEN FAdd(before, Dec(1, 10)) ELSE before
       IN  IF LowerIn(words[n], negative_words)
             THEN FSub(plus, Dec(1, 10)) ELSE plus

calculate_sentiment(text) ==
  LET InAList(word) == LowerIn(word, positive_words \cup negative_words)
      listed == SelectSeq(Split(text), InAList)
  IN  FMax(XNeg(One), FMin(One, SentimentLoop(listed, Len(listed))))

\* what a call gives back: a value, or an exception that leaves the call
Return(value) == [kind |-> "return", value |-> value]
Raise(error) == [kind |-> "raise", error |-> error]

\* determine_action with  >=  written for  >  on every rung
determine_action_NonStrict(self, scores) ==
  LET has(key) == key \in DOMAIN scores
  IN  IF ~has("toxicity") THEN Raise("KeyError")
      ELSE IF FLessEq(self.toxicity_threshold, scores["toxicity"]) THEN Return("block")
      ELSE IF ~has("spam") THEN Raise("KeyError")
      ELSE IF FLessEq(self.spam_threshold, scores["spam"]) THEN Return("block")
      ELSE IF FLessEq(Dec(4, 10), scores["toxicity"]) THEN Return("flag")
      ELSE IF FLessEq(Dec(5, 10), scores["spam"]) THEN Return("flag")
      ELSE IF FLessEq(Dec(2, 10), scores["toxicity"]) THEN Return("warn")
      ELSE IF FLessEq(Dec(3, 10), scores["spam"]) THEN Return("warn")
      ELSE Return("approved")

\* determine_action: scores[key] raises KeyError for a key the dict lacks,
\* and `or` does not read its right operand once the left one is true
determine_action(self, scores) ==
  LET has(key) == key \in DOMAIN scores
  IN  IF ~has("toxicity") THEN Raise("KeyError")
      ELSE IF FGreater(scores["toxicity"], self.toxicity_threshold) THEN Return("block")
      ELSE IF ~has("spam") THEN Raise("KeyError")
      ELSE IF FGreater(scores["spam"], self.spam_threshold) THEN Return("block")
      ELSE IF FGreater(scores["toxicity"], Dec(4, 10)) THEN Return("flag")
      ELSE IF FGreater(scores["spam"], Dec(5, 10)) THEN Return("flag")
      ELSE IF FGreater(scores["toxicity"], Dec(2, 10)) THEN Return("warn")
      ELSE IF FGreater(scores["spam"], Dec(3, 10)) THEN Return("warn")
      ELSE Return("approved")

\* generate_reason with the second toxicity cut typed 0.5 for 0.4
generate_reason_OtherCut(scores, action) ==
  LET toxicity_reason ==
        IF FGreater(scores["toxicity"], Dec(7, 10)) THEN <<"High toxicity detected">>
        ELSE IF FGreater(scores["toxicity"], Dec(5, 10))
          THEN <<"Potentially inappropriate language">>
        ELSE <<>>
      spam_reason ==
        IF FGreater(scores["spam"], Dec(8, 10)) THEN <<"Spam content detected">>
        ELSE IF FGreater(scores["spam"], Dec(5, 10))
          THEN <<"Promotional content flagged">>
        ELSE <<>>
      reasons == toxicity_reason \o spam_reason
  IN  IF reasons = <<>>
        THEN IF action = "warn" THEN "Content contains questionable material"
             ELSE IF action = "approved" THEN "Content approved"
             ELSE "Automatic moderation applied"
        ELSE IF Len(reasons) = 1 THEN reasons[1]
        ELSE reasons[1] \o ", " \o reasons[2]

\* ', '.join(reasons)
JoinReasons(reasons) ==
  IF Len(reasons) = 1 THEN reasons[1] ELSE reasons[1] \o ", " \o reasons[2]

\* generate_reason, for scores that hold the keys 'toxicity' and 'spam'
generate_reason(scores, action) ==
  LET toxicity_reason ==
        IF FGreater(scores["toxicity"], Dec(7, 10)) THEN <<"High toxicity detected">>
        ELSE IF FGreater(scores["toxicity"], Dec(4, 10))
          THEN <<"Potentially inappropriate language">>
        ELSE <<>>
      spam_reason ==
        IF FGreater(scores["spam"], Dec(8, 10)) THEN <<"Spam content detected">>
        ELSE IF FGreater(scores["spam"], Dec(5, 10))
          THEN <<"Promotional content flagged">>
        ELSE <<>>
      reasons == toxicity_reason \o spam_reason
  IN  IF reasons = <<>>
        THEN IF action = "warn" THEN "Content contains questionable material"
             ELSE IF action = "approved" THEN "Content approved"
             ELSE "Automatic moderation applied"
        ELSE JoinReasons(reasons)

\* what Python values a caller can pass as content: a str, None, an int, a
\* bytes object or a list of str
PyStr(text) == [type |-> "str", str |-> text]
PyNone == [type |-> "NoneType"]
PyInt(n) == [type |-> "int", int |-> n]
PyBytes(text) == [type |-> "bytes", bytes |-> text]
PyList(items) == [type |-> "list", items |-> items]

\* ModerationResult(...); processing_time, a wall-clock reading, is left out
ModerationResult(action, reason, scores, appealable) ==
  [kind |-> "result", action |-> action, reason |-> reason, scores |-> scores,
   appealable |-> appealable]

\* the scores dict analyze_text builds for a str
TextScores(self, text) ==
  [toxicity   |-> calculate_toxicity_score(self, text),
   spam       |-> calculate_spam_score(self, text),
   sentiment  |-> calculate_sentiment(text),
   confidence |-> Dec(85, 100)]

\* the exception the scoring of analyze_text ends with for content that is
\* not a str: text.lower() does not exist on None, an int or a list, and a
\* bytes object has it but cannot be searched by a str pattern
TextScoringError(content) ==
  IF content.type = "bytes" THEN "TypeError" ELSE "AttributeError"

\* analyze_text(text, context): context is never read
analyze_text(self, content, context) ==
  IF content.type # "str" THEN Raise(TextScoringError(content))
  ELSE LET scores == TextScores(self, content.str)
           action == determine_action(self, scores).value
           reason == generate_reason(scores, action)
       IN  ModerationResult(action, reason, scores, action # "approved")

\* Python's  marker in image_url  for a str (substring) and a list (element)
PyIn(marker, content) ==
  IF content.type = "str" THEN Contains(content.str, marker)
  ELSE \E n \in 1..Len(content.items) : content.items[n] = marker

\* the scores dict analyze_image builds
ImageScores(content) ==
  [nsfw       |-> IF PyIn("nsfw", content) \/ PyIn("adult", content)
                    THEN Dec(9, 10) ELSE Dec(1, 10),
   violence   |-> IF PyIn("violence", content) \/ PyIn("weapon", content)
                    THEN Dec(8, 10) ELSE Dec(1, 10),
   confidence |-> Dec(9, 10)]

\* ImageAction with  and  written for  or
ImageActionBoth(self, scores) ==
  IF FGreater(scores["nsfw"], self.nsfw_threshold)
     /\ FGreater(scores["violence"], Dec(7, 10))
    THEN "block" ELSE "approved"

\* the action analyze_image computes inline
ImageAction(self, scores) ==
  IF FGreater(scores["nsfw"], self.nsfw_threshold)
     \/ FGreater(scores["violence"], Dec(7, 10))
    THEN "block" ELSE "approved"

\* the appealable field of the result analyze_image builds: the constructor
\* call does not pass it, so it is the dataclass default
ImageAppealable(action) == TRUE

\* analyze_image(image_url):  'nsfw' in image_url  raises TypeError for None,
\* an int and a bytes object
analyze_image(self, content) ==
  IF content.type \notin {"str", "list"} THEN Raise("TypeError")
  ELSE LET scores == ImageScores(content)
           action == ImageAction(self, scores)
       IN  ModerationResult(action, "Image content analysis completed", scores,
                            ImageAppealable(action))

-----------------------------------------------------------------------------
(* the inputs the calls are made with                                        *)

\* the longest generated text, in words
MaxWords == 3

\* words that each reach one part of the scoring: toxic patterns, profanity,
\* upper case, sentiment words, the promotion pattern
Vocabulary == {"hate", "DIE", "racism", "idiot", "damn", "GREAT", "buy", "now"}

RECURSIVE Phrases(_)
Phrases(k) ==
  IF k = 1 THEN Vocabulary
  ELSE {p \o " " \o w : p \in Phrases(k - 1), w \in Vocabulary}

GeneratedTexts == UNION {Phrases(k) : k \in 1..MaxWords}

Scenario1Text == "This is a wonderful day! I love sharing positive thoughts with everyone."
Scenario2Text == "You are all idiots and I hate this toxic community! Everyone here is stupid!"
Scenario3Text == "Buy now! Amazing deals! Click here for limited time offers! Visit our website!"

\* the texts of test_basic_moderation and test_performance, and texts that
\* reach the clamps, the URL and repetition rules and the empty-text guard
ScenarioTexts ==
  {Scenario1Text, Scenario2Text, Scenario3Text,
   "This is kind of annoying, but I guess it's okay.",
   "Thank you for sharing this helpful tutorial on React development.",
   "This is a performance test for the AI moderation system to ensure it processes content quickly and efficiently.",
   "", " ", "\n",
   "hate die racism idiot",
   "HATE DIE RACISM IDIOT STUPID",
   "damn damn damn damn damn damn damn",
   "good great love good great love good great love good great love",
   "bad awful hate bad awful hate bad awful hate bad awful hate",
   "buy now click here http://a.b http://c.d http://e.f",
   "hate die racism buy now click here",
   "BUY NOW!!!!!!!!!!!! http://a.bhttp://c.dhttps://e.f make money",
   "spam spam spam spam spam spam spam spam spam spam spam spam",
   "visit\nwebsite buy\nnow"}

Texts == ScenarioTexts \cup GeneratedTexts

\* content that is not a str
NonStrContents ==
  {PyNone, PyInt(5), PyBytes("nsfw"), PyList(<<>>), PyList(<<"nsfw">>)}

TextContents == {PyStr(t) : t \in Texts} \cup NonStrContents

\* the URLs of test_image_moderation, and references with each marker, with
\* none, and with a marker in upper case
ImageRefs ==
  {"https://example.com/" \o name \o ".jpg" :
     name \in {"cute-puppy", "nsfw-content", "violence-weapon", "adult", "weapon",
               "violence", "NSFW", "Adult-Weapon", "nsfw-violence"}} \cup {""}

ImageContents == {PyStr(r) : r \in ImageRefs} \cup NonStrContents

\* the context argument: None (the default) or the dict the demo passes
NoContext == [given |-> FALSE]
Contexts == {NoContext, [given |-> TRUE, userId |-> 1, contentType |-> "test"]}

\* the binary64 value next above x (x >= 1/16)
NextUp(x) == XAdd(x, <<0, UlpOf(x[1])>>)

\* the cut-points of determine_action
LadderCuts == {Dec(n, 10) : n \in {2, 3, 4, 5, 7, 8}}

\* score values at, just above and away from every cut-point
ScoreGrid == {Zero, Dec(1, 10), Dec(6, 10), One} \cup LadderCuts
               \cup {NextUp(c) : c \in LadderCuts}

TextKeys == {"toxicity", "spam", "sentiment", "confidence"}
ImageKeys == {"nsfw", "violence", "confidence"}

TextShapedScores ==
  {[toxicity |-> t, spam |-> s, sentiment |-> m, confidence |-> Dec(85, 100)] :
     t \in ScoreGrid, s \in ScoreGrid, m \in {XNeg(One), Zero, Dec(3, 10)}}

ImageShapedScores ==
  {[nsfw |-> n, violence |-> v, confidence |-> Dec(9, 10)] :
     n \in {Dec(1, 10), Dec(9, 10)}, v \in {Dec(1, 10), Dec(8, 10)}}

\* the dicts determine_action is called with
ScoreSets ==
  TextShapedScores \cup ImageShapedScores
    \cup {[toxicity |-> Dec(9, 10)], [toxicity |-> Dec(1, 10)]}

-----------------------------------------------------------------------------
(* the program: one ContentAnalyzer, called as ModerationDemo calls it, one  *)
(* call after the other                                                      *)

VARIABLES
  analyzer,   \* the ContentAnalyzer: thresholds and pattern lists
  call,       \* the call made last: operation, arguments and outcome
  baseline,   \* the first call of a series of re-submissions of one text
  tasks       \* the calls in progress on concurrent request-handling tasks

vars == <<analyzer, call, baseline, tasks>>

\* the number of concurrent tasks
NumTasks == 2

Tasks == 1..NumTasks

NoCall == [op |-> "none"]
NoScores == [none |-> Zero]
NoOutcome == [kind |-> "none"]

IdleTask ==
  [pc |-> "idle", op |-> "none", input |-> PyNone, context |-> NoContext,
   scores |-> NoScores, action |-> "none", outcome |-> NoOutcome]

TextCall(content, context) ==
  [op |-> "analyze_text", input |-> content, context |-> context,
   outcome |-> analyze_text(analyzer, content, context)]

ImageCall(content) ==
  [op |-> "analyze_image", input |-> content,
   outcome |-> analyze_image(analyzer, content)]

Init ==
  /\ analyzer = NewContentAnalyzer
  /\ call = NoCall
  /\ baseline = NoCall
  /\ tasks = [t \in Tasks |-> IdleTask]

\* self.analyzer.analyze_text(content, context)
AnalyzeText ==
  /\ call = NoCall
  /\ \E content \in TextContents, context \in Contexts :
       call' = TextCall(content, context)
  /\ UNCHANGED <<analyzer, baseline, tasks>>

\* self.analyzer.analyze_image(url)
AnalyzeImage ==
  /\ call = NoCall
  /\ \E content \in ImageContents : call' = ImageCall(content)
  /\ UNCHANGED <<analyzer, baseline, tasks>>

\* analyzer.determine_action(scores), called on its own
DetermineAction ==
  /\ call = NoCall
  /\ \E scores \in ScoreSets :
       call' = [op |-> "determine_action", input |-> scores,
                outcome |-> determine_action(analyzer, scores)]
  /\ UNCHANGED <<analyzer, baseline, tasks>>

\* the caller has used the outcome and goes on to its next call
NextCase ==
  /\ call # NoCall
  /\ call' = NoCall
  /\ UNCHANGED <<analyzer, baseline, tasks>>

Next == AnalyzeText \/ AnalyzeImage \/ DetermineAction \/ NextCase

Spec == Init /\ [][Next]_vars

-----------------------------------------------------------------------------
(* one text analysed again and again with one more toxicity signal appended  *)

\* the most signal words appended to a text
MaxAdded == 3

\* the texts the series start from
BaseTexts ==
  {"", "hate", "HATE", "I HATE YOU", "STUPID", "DAMN IT", "kill", "nice day",
   "You are all idiots", "buy now", "OK damn", "GREAT"}

\* what is appended: profanity tokens and words a toxic pattern matches
\* (none of them a sentiment word or part of a spam pattern)
SignalWords == {"damn", "crap", "idiot", "toxic", "die", "DAMN"}

\* the number of words appended so far
Added == Len(Split(call.input.str)) - Len(Split(baseline.input.str))

SeriesInit ==
  /\ analyzer = NewContentAnalyzer
  /\ tasks = [t \in Tasks |-> IdleTask]
  /\ \E text \in BaseTexts :
       /\ baseline = [op |-> "analyze_text", input |-> PyStr(text),
                      context |-> NoContext,
                      outcome |-> analyze_text(NewContentAnalyzer, PyStr(text), NoContext)]
       /\ call = baseline

\* analyze_text on the text of the last call with one signal word appended
AddSignal ==
  /\ Added < MaxAdded
  /\ \E word \in SignalWords :
       call' = TextCall(PyStr(call.input.str \o " " \o word), NoContext)
  /\ UNCHANGED <<analyzer, baseline, tasks>>

SeriesNext == AddSignal

SeriesSpec == SeriesInit /\ [][SeriesNext]_vars

-----------------------------------------------------------------------------
(* concurrent calls on one ContentAnalyzer: each call is a task that gives   *)
(* way to the others at its sleep and between the methods it calls           *)

TaskTexts == {"HATE", "hate idiot damn", Scenario3Text}
TaskRefs == {"https://example.com/cute-puppy.jpg", "https://example.com/nsfw-content.jpg"}

\* analyze_text or analyze_image is entered: start_time is read and the task
\* sleeps
Begin(t) ==
  /\ tasks[t].pc = "idle"
  /\ \/ \E text \in TaskTexts, context \in Contexts :
          tasks' = [tasks EXCEPT ![t] =
                      [IdleTask EXCEPT !.pc = "sleeping", !.op = "analyze_text",
                                       !.input = PyStr(text), !.context = context]]
     \/ \E ref \in TaskRefs :
          tasks' = [tasks EXCEPT ![t] =
                      [IdleTask EXCEPT !.pc = "sleeping", !.op = "analyze_image",
                                       !.input = PyStr(ref)]]
  /\ UNCHANGED <<analyzer, call, baseline>>

\* analyze_text: the three scores and the scores dict
TextScore(t) ==
  /\ tasks[t].pc = "sleeping"
  /\ tasks[t].op = "analyze_text"
  /\ tasks' = [tasks EXCEPT ![t].pc = "scored",
                            ![t].scores = TextScores(analyzer, tasks[t].input.str)]
  /\ UNCHANGED <<analyzer, call, baseline>>

\* TextDecide with a determine_action that tightens self.toxicity_threshold
\* to the flag cut once it has blocked a text
TextDecideTightening(t) ==
  /\ tasks[t].pc = "scored"
  /\ tasks[t].op = "analyze_text"
  /\ LET action == determine_action(analyzer, tasks[t].scores).value
     IN  /\ tasks' = [tasks EXCEPT ![t].pc = "decided", ![t].action = action]
         /\ analyzer' = IF action = "block"
                          THEN [analyzer EXCEPT !.toxicity_threshold = Dec(4, 10)]
                          ELSE analyzer
  /\ UNCHANGED <<call, baseline>>

\* analyze_text: action = self.determine_action(scores)
TextDecide(t) ==
  /\ tasks[t].pc = "scored"
  /\ tasks[t].op = "analyze_text"
  /\ tasks' = [tasks EXCEPT ![t].pc = "decided",
                            ![t].action = determine_action(analyzer, tasks[t].scores).value]
  /\ UNCHANGED <<analyzer, call, baseline>>

\* analyze_text: reason = self.generate_reason(scores, action) and the result
TextFinish(t) ==
  /\ tasks[t].pc = "decided"
  /\ tasks[t].op = "analyze_text"
  /\ tasks' = [tasks EXCEPT ![t].pc = "done",
                            ![t].outcome =
                               ModerationResult(tasks[t].action,
                                                generate_reason(tasks[t].scores, tasks[t].action),
                                                tasks[t].scores,
                                                tasks[t].action # "approved")]
  /\ UNCHANGED <<analyzer, call, baseline>>

\* analyze_image: the scores dict
ImageScore(t) ==
  /\ tasks[t].pc = "sleeping"
  /\ tasks[t].op = "analyze_image"
  /\ tasks' = [tasks EXCEPT ![t].pc = "scored",
                            ![t].scores = ImageScores(tasks[t].input)]
  /\ UNCHANGED <<analyzer, call, baseline>>

\* analyze_image: the action, read against self.nsfw_threshold, and the result
ImageFinish(t) ==
  /\ tasks[t].pc = "scored"
  /\ tasks[t].op = "analyze_image"
  /\ LET action == ImageAction(analyzer, tasks[t].scores)
     IN  tasks' = [tasks EXCEPT ![t].pc = "done",
                                ![t].action = action,
                                ![t].outcome =
                                   ModerationResult(action, "Image content analysis completed",
                                                    tasks[t].scores, ImageAppealable(action))]
  /\ UNCHANGED <<analyzer, call, baseline>>

\* the request handler has used the result and takes its next request
TaskReturn(t) ==
  /\ tasks[t].pc = "done"
  /\ tasks' = [tasks EXCEPT ![t] = IdleTask]
  /\ UNCHANGED <<analyzer, call, baseline>>

TasksNext ==
  \E t \in Tasks :
    \/ Begin(t)
    \/ TextScore(t)
    \/ TextDecide(t)
    \/ TextFinish(t)
    \/ ImageScore(t)
    \/ ImageFinish(t)
    \/ TaskReturn(t)

TasksSpec == Init /\ [][TasksNext]_vars

-----------------------------------------------------------------------------
(* the properties                                                            *)

\* the order of the four actions: approved < warn < flag < block
Severity(action) ==
  CASE action = "approved" -> 0
    [] action = "warn" -> 1
    [] action = "flag" -> 2
    [] action = "block" -> 3

\* the last call was analyze_text or analyze_image and returned a result for content that is a str
ReturnedResult ==
  /\ call.op \in {"analyze_text", "analyze_image"}
  /\ call.input.type = "str"
  /\ call.outcome.kind = "result"

TextResult == call.op = "analyze_text" /\ call.outcome.kind = "result"

ImageResult == call.op = "analyze_image" /\ call.outcome.kind = "result"

\* C1: in every result of analyze_text and analyze_image, appealable is true
\* exactly when the action is not 'approved'.
C1_AppealableIffNotApproved ==
  ReturnedResult =>
    (call.outcome.appealable <=> call.outcome.action # "approved")

\* C2: analyze_text on the text of scenario 2 gives a toxicity above 0.7,
\* the action 'block' and a reason that contains "High toxicity detected".
C2_Scenario2Blocked ==
  (call.op = "analyze_text" /\ call.input = PyStr(Scenario2Text)) =>
    /\ call.outcome.kind = "result"
    /\ FGreater(call.outcome.scores["toxicity"], Dec(7, 10))
    /\ call.outcome.action = "block"
    /\ Contains(call.outcome.reason, "High toxicity detected")

\* the text of the last call is the text of the first one with signal words
\* appended, and both have the same spam and sentiment scores
SameSpamAndSentiment ==
  /\ call.outcome.scores["spam"] = baseline.outcome.scores["spam"]
  /\ call.outcome.scores["sentiment"] = baseline.outcome.scores["sentiment"]

NotLessToxic ==
  /\ FLessEq(baseline.outcome.scores["toxicity"], call.outcome.scores["toxicity"])
  /\ Severity(baseline.outcome.action) <= Severity(call.outcome.action)

\* C3 as claimed: a text that differs from another only by more profanity
\* tokens or toxic-pattern matches, with the same spam and sentiment scores,
\* has a toxicity score that is not lower and an action that is not less
\* severe.
C3_MoreSignalsNotLessToxic == SameSpamAndSentiment => NotLessToxic

\* C3 as amended: the same, provided the second text's share of upper-case
\* characters still exceeds 0.5 whenever the first text's does.
C3_MoreSignalsNotLessToxicCapsKept ==
  (/\ SameSpamAndSentiment
   /\ CapsRatioHigh(baseline.input.str) => CapsRatioHigh(call.input.str))
    => NotLessToxic

C3_Witness ==
  /\ Added >= 2
  /\ SameSpamAndSentiment
  /\ CapsRatioHigh(baseline.input.str)
  /\ CapsRatioHigh(call.input.str)
  /\ FLess(baseline.outcome.scores["toxicity"], call.outcome.scores["toxicity"])
  /\ Severity(baseline.outcome.action) < Severity(call.outcome.action)

\* the value of a key, 0.0 for a key the dict lacks
ScoreOrZero(scores, key) == IF key \in DOMAIN scores THEN scores[key] ELSE Zero

\* the rung of the ladder that toxicity t and spam s reach
Rung(t, s) ==
  IF FGreater(t, Dec(7, 10)) \/ FGreater(s, Dec(8, 10)) THEN 3
  ELSE IF FGreater(t, Dec(4, 10)) \/ FGreater(s, Dec(5, 10)) THEN 2
  ELSE IF FGreater(t, Dec(2, 10)) \/ FGreater(s, Dec(3, 10)) THEN 1
  ELSE 0

\* C4: determine_action returns an action for text-shaped and for
\* image-shaped scores alike, a lacking 'toxicity' or 'spam' key counting as
\* 0.0, and never fails.
C4_DetermineActionTotal ==
  call.op = "determine_action" =>
    /\ call.outcome.kind = "return"
    /\ Severity(call.outcome.value)
         = Rung(ScoreOrZero(call.input, "toxicity"), ScoreOrZero(call.input, "spam"))

\* C5: for every str, the empty one included, analyze_text returns a result
\* whose toxicity, spam and confidence lie in [0.0, 1.0] and whose sentiment
\* lies in [-1.0, 1.0].
C5_TextScoresInRange ==
  (call.op = "analyze_text" /\ call.input.type = "str") =>
    /\ call.outcome.kind = "result"
    /\ \A key \in {"toxicity", "spam", "confidence"} :
         /\ FLessEq(Zero, call.outcome.scores[key])
         /\ FLessEq(call.outcome.scores[key], One)
    /\ FLessEq(XNeg(One), call.outcome.scores["sentiment"])
    /\ FLessEq(call.outcome.scores["sentiment"], One)

\* a text whose toxicity sum exceeds 1.0 before the clamp
C5_Witness ==
  /\ TextResult
  /\ call.input.type = "str"
  /\ FGreater(ToxicityRaw(analyzer, call.input.str), One)
  /\ call.outcome.scores["toxicity"] = One

\* C6: for text-shaped scores determine_action returns the first rung
\* reached, with strict comparisons: block above 0.7 toxicity or 0.8 spam,
\* else flag above 0.4 or 0.5, else warn above 0.2 or 0.3, else approved;
\* so does the action of every analyze_text result.
C6_LadderFirstMatch ==
  /\ (call.op = "determine_action" /\ DOMAIN call.input = TextKeys) =>
       /\ call.outcome.kind = "return"
       /\ Severity(call.outcome.value)
            = Rung(call.input["toxicity"], call.input["spam"])
       /\ FGreater(call.input["toxicity"], Dec(7, 10)) => call.outcome.value = "block"
  /\ TextResult =>
       Severity(call.outcome.action)
         = Rung(call.outcome.scores["toxicity"], call.outcome.scores["spam"])

\* scores that sit exactly on the block cut of toxicity and the warn cut of
\* spam: the call answers flag
C6_Witness ==
  /\ call.op = "determine_action"
  /\ DOMAIN call.input = TextKeys
  /\ call.input["toxicity"] = Dec(7, 10)
  /\ call.input["spam"] = Dec(3, 10)
  /\ call.outcome = Return("flag")

\* the reference holds one of the four markers
HasMarker(ref) ==
  \E marker \in {"nsfw", "adult", "violence", "weapon"} : Contains(ref, marker)

\* C7: for every reference string analyze_image answers block exactly when
\* nsfw > 0.6 or violence > 0.7, which is when the reference holds a marker,
\* and approved otherwise, never warn or flag, with the fixed reason.
C7_ImageBinaryRule ==
  (call.op = "analyze_image" /\ call.input.type = "str") =>
    /\ call.outcome.kind = "result"
    /\ call.outcome.action \in {"block", "approved"}
    /\ call.outcome.action = "block" <=>
         (\/ FGreater(call.outcome.scores["nsfw"], Dec(6, 10))
          \/ FGreater(call.outcome.scores["violence"], Dec(7, 10)))
    /\ call.outcome.action = "block" <=> HasMarker(call.input.str)
    /\ call.outcome.reason = "Image content analysis completed"

\* a reference whose only marker is a violence marker, blocked
C7_Witness ==
  /\ ImageResult
  /\ call.input = PyStr("https://example.com/weapon.jpg")
  /\ call.outcome.action = "block"
  /\ call.outcome.scores["nsfw"] = Dec(1, 10)

\* C8: a call of analyze_text or analyze_image with content that is not a
\* str ends in an InvalidInput failure and never in a ModerationResult.
C8_NonStringIsInvalidInput ==
  (call.op \in {"analyze_text", "analyze_image"} /\ call.input.type # "str") =>
    call.outcome = Raise("InvalidInput")

\* what a finished task must hold: the outcome of the same call made alone on
\* a fresh analyzer, whatever the context
AloneOutcome(task) ==
  IF task.op = "analyze_text"
    THEN analyze_text(NewContentAnalyzer, task.input, NoContext)
    ELSE analyze_image(NewContentAnalyzer, task.input)

\* C9: no call changes the analyzer, and under every interleaving each call
\* returns the action, reason and scores it returns when run alone,
\* whatever its context argument.
C9_CallsDoNotInterfere ==
  /\ analyzer = NewContentAnalyzer
  /\ \A t \in Tasks :
       tasks[t].pc = "done" => tasks[t].outcome = AloneOutcome(tasks[t])

\* one task has returned while another, begun with another text and another
\* context, is between scoring and deciding
C9_Witness ==
  \E t, u \in Tasks :
    /\ tasks[t].pc = "done"
    /\ tasks[t].op = "analyze_text"
    /\ tasks[t].outcome.action = "flag"
    /\ tasks[u].pc = "scored"
    /\ tasks[u].op = "analyze_text"
    /\ tasks[u].input # tasks[t].input
    /\ tasks[u].context # tasks[t].context

ToxicityMessages == {"High toxicity detected", "Potentially inappropriate language"}
SpamMessages == {"Spam content detected", "Promotional content flagged"}

ThresholdReasons ==
  ToxicityMessages \cup SpamMessages
    \cup {t \o ", " \o m : t \in ToxicityMessages, m \in SpamMessages}

\* C10: in every analyze_text result the reason is "Content approved"
\* exactly for approved, "Content contains questionable material" exactly
\* for warn, and a joined list of threshold messages for flag and block; it
\* is never "Automatic moderation applied".
C10_ReasonMatchesAction ==
  TextResult =>
    /\ call.outcome.reason = "Content approved" <=> call.outcome.action = "approved"
    /\ call.outcome.reason = "Content contains questionable material"
         <=> call.outcome.action = "warn"
    /\ call.outcome.action \in {"flag", "block"} =>
         call.outcome.reason \in ThresholdReasons
    /\ call.outcome.reason # "Automatic moderation applied"

\* a blocked text whose reason joins a toxicity and a spam message
C10_Witness ==
  /\ TextResult
  /\ call.outcome.action = "block"
  /\ call.outcome.reason = "High toxicity detected, Promotional content flagged"

=============================================================================
